---- MODULE Spec2Model ----
(***************************************************************************)
(* Model of @softwareventures/timestamp (src/index.ts).                    *)
(*                                                                         *)
(* The library is a set of pure functions over records of JavaScript       *)
(* numbers.  A JavaScript number is modelled as a record [k, v]: k is the  *)
(* kind ("fin", "nan", "pinf", "ninf", or "undef" for an omitted field)    *)
(* and, for a finite number, v is the value counted in units of 1/Res, so  *)
(* that fractional values are representable.  A count of reference seconds *)
(* is too large for one machine integer once it is counted in units of     *)
(* 1/Res over a span of millennia, so it is kept as two limbs [k, d, s]:   *)
(* the value is d * 86400 + s / Res seconds with 0 <= s < 86400 * Res.     *)
(* All arithmetic on these values is exact, as IEEE double arithmetic is   *)
(* for dyadic fractions of this magnitude.                                 *)
(***************************************************************************)
EXTENDS Integers, Sequences, FiniteSets, TLC

VARIABLES op, a, b, out, val

vars == <<op, a, b, out, val>>

(***************************************************************************)
(* Bounds of the model.                                                    *)
(***************************************************************************)
\* Units per whole number: fractional values are multiples of 1/Res.
Res == 4
\* Years within YearRadius of each pivot year are supplied as inputs.
YearRadius == 1

(***************************************************************************)
(* JavaScript numbers.                                                     *)
(***************************************************************************)
SecondsPerDay == 86400

DayUnits == SecondsPerDay * Res

Fin(n) == [k |-> "fin", v |-> n]

Num(n) == Fin(n * Res)

NaN == [k |-> "nan", v |-> 0]

PosInf == [k |-> "pinf", v |-> 0]

NegInf == [k |-> "ninf", v |-> 0]

Undefined == [k |-> "undef", v |-> 0]

\* isFinite(x) of a number; an omitted field is not a number.
IsFinite(x) == x.k = "fin"

\* Math.floor(x) === x for a finite x.
IsWhole(x) == x.k = "fin" /\ x.v % Res = 0

\* x ?? d
Coalesce(x, d) == IF x.k = "undef" THEN d ELSE x

\* x + y
Add(x, y) ==
    IF x.k = "fin" /\ y.k = "fin" THEN Fin(x.v + y.v)
    ELSE IF x.k \in {"nan", "undef"} \/ y.k \in {"nan", "undef"} THEN NaN
    ELSE IF x.k = "fin" THEN y
    ELSE IF y.k = "fin" THEN x
    ELSE IF x.k = y.k THEN x
    ELSE NaN

\* x * c for a constant c > 0
Scale(x, c) ==
    IF x.k = "fin" THEN Fin(x.v * c)
    ELSE IF x.k = "undef" THEN NaN
    ELSE x

\* x >= lo /\ x <= hi for whole numbers lo, hi (false for NaN and undefined)
InRange(x, lo, hi) == x.k = "fin" /\ x.v >= lo * Res /\ x.v <= hi * Res

(***************************************************************************)
(* Reference seconds: a JavaScript number in two limbs.                    *)
(***************************************************************************)
Ref(d, s) == [k |-> "fin", d |-> d + (s \div DayUnits), s |-> s % DayUnits]

RefNaN == [k |-> "nan", d |-> 0, s |-> 0]

RefPosInf == [k |-> "pinf", d |-> 0, s |-> 0]

RefNegInf == [k |-> "ninf", d |-> 0, s |-> 0]

\* days * 86400 + secondsOfDay
DaysPlusSeconds(days, secs) ==
    IF days.k = "fin" /\ secs.k = "fin"
        THEN Ref(days.v \div Res, (days.v % Res) * SecondsPerDay + secs.v)
    ELSE IF days.k \in {"nan", "undef"} \/ secs.k \in {"nan", "undef"} THEN RefNaN
    ELSE IF days.k = "fin" THEN [k |-> secs.k, d |-> 0, s |-> 0]
    ELSE IF secs.k = "fin" THEN [k |-> days.k, d |-> 0, s |-> 0]
    ELSE IF days.k = secs.k THEN [k |-> days.k, d |-> 0, s |-> 0]
    ELSE RefNaN

\* x < y
RefLess(x, y) ==
    IF x.k = "nan" \/ y.k = "nan" THEN FALSE
    ELSE IF x.k = "fin" /\ y.k = "fin" THEN x.d < y.d \/ (x.d = y.d /\ x.s < y.s)
    ELSE IF x.k = "ninf" THEN y.k # "ninf"
    ELSE IF y.k = "pinf" THEN x.k # "pinf"
    ELSE FALSE

\* x === y
RefSame(x, y) == x.k # "nan" /\ y.k # "nan" /\ x = y

(***************************************************************************)
(* Calendar adapter (@softwareventures/date): the proleptic Gregorian      *)
(* calendar with astronomical year numbering, day 0 = 1 January of year 1. *)
(***************************************************************************)
isLeapYear(y) == (y % 4 = 0 /\ y % 100 # 0) \/ y % 400 = 0

daysInMonth(m, y) ==
    IF m = 2 THEN (IF isLeapYear(y) THEN 29 ELSE 28)
    ELSE IF m \in {4, 6, 9, 11} THEN 30
    ELSE 31

RECURSIVE daysBeforeMonth(_, _)
daysBeforeMonth(m, y) ==
    IF m <= 1 THEN 0 ELSE daysBeforeMonth(m - 1, y) + daysInMonth(m - 1, y)

daysBeforeYear(y) ==
    365 * (y - 1) + ((y - 1) \div 4) - ((y - 1) \div 100) + ((y - 1) \div 400)

\* Calendar fields to a day count.  A month outside 1..12 carries into the
\* year; a day outside the month counts on linearly.  Only whole or
\* non-finite fields are supplied; a non-finite field gives NaN.
toReferenceDays(date) ==
    IF ~(IsFinite(date.year) /\ IsFinite(date.month) /\ IsFinite(date.day)) THEN NaN
    ELSE LET y0 == date.year.v \div Res
             m0 == date.month.v \div Res
             d0 == date.day.v \div Res
             y == y0 + ((m0 - 1) \div 12)
             m == ((m0 - 1) % 12) + 1
         IN Num(daysBeforeYear(y) + daysBeforeMonth(m, y) + d0 - 1)

\* A whole day count to calendar fields.
fromReferenceDays(n) ==
    LET q400 == n \div 146097
        r400 == n % 146097
        c == IF r400 \div 36524 > 3 THEN 3 ELSE r400 \div 36524
        r100 == r400 - c * 36524
        q4 == r100 \div 1461
        r4 == r100 % 1461
        y1 == IF r4 \div 365 > 3 THEN 3 ELSE r4 \div 365
        doy == r4 - y1 * 365
        year == 400 * q400 + 100 * c + 4 * q4 + y1 + 1
        month == CHOOSE m \in 1..12 :
                     /\ daysBeforeMonth(m, year) <= doy
                     /\ doy < daysBeforeMonth(m, year) + daysInMonth(m, year)
    IN [year |-> Num(year), month |-> Num(month),
        day |-> Num(doy - daysBeforeMonth(month, year) + 1)]

(***************************************************************************)
(* Time-of-day adapter (@softwareventures/time).                           *)
(***************************************************************************)
timeToReferenceSeconds(time) ==
    Add(Add(Scale(time.hours, 3600), Scale(time.minutes, 60)), time.seconds)

\* u: seconds of the day in units of 1/Res
timeFromReferenceSeconds(u) ==
    LET h == u \div (3600 * Res)
        m == (u - h * 3600 * Res) \div (60 * Res)
    IN [hours |-> Num(h), minutes |-> Num(m),
        seconds |-> Fin(u - h * 3600 * Res - m * 60 * Res)]

(***************************************************************************)
(* Timestamp and TimestampOptions records.  The type field is "absent"     *)
(* when the object has no type property.                                   *)
(***************************************************************************)
Options(type, year, month, day, hours, minutes, seconds) ==
    [type |-> type, year |-> year, month |-> month, day |-> day,
     hours |-> hours, minutes |-> minutes, seconds |-> seconds]

NoOptions ==
    Options("absent", Undefined, Undefined, Undefined, Undefined, Undefined, Undefined)

\* The outcome of a call that returns a Timestamp: a value, or a thrown Error.
Ok(t) == [tag |-> "ok", t |-> t]

Thrown == [tag |-> "error", t |-> NoOptions]

\* null
Null == [tag |-> "null", t |-> NoOptions]

NoOutcome == [tag |-> "none", t |-> NoOptions]

NoVal ==
    [rs |-> RefNaN, flag |-> FALSE, cmp |-> "none", txt |-> <<>>, str |-> <<>>,
     seq |-> <<>>, day |-> "none"]

isInteger(x) == IsWhole(x)

isIntegerInRange(x, lo, hi) == IsWhole(x) /\ InRange(x, lo, hi)

isTimestamp(value) ==
    /\ value.type # "absent"
    /\ value.type = "timestamp"
    /\ value.year.k # "undef"
    /\ value.month.k # "undef"
    /\ value.day.k # "undef"
    /\ value.hours.k # "undef"
    /\ value.minutes.k # "undef"
    /\ value.seconds.k # "undef"

isValid(timestamp) ==
    /\ (timestamp.type = "absent" \/ timestamp.type = "Timestamp")
    /\ isInteger(timestamp.year)
    /\ isIntegerInRange(timestamp.month, 1, 12)
    /\ isIntegerInRange(timestamp.day, 1,
           daysInMonth(timestamp.month.v \div Res, timestamp.year.v \div Res))
    /\ isIntegerInRange(timestamp.hours, 0, 23)
    /\ isIntegerInRange(Coalesce(timestamp.minutes, Num(0)), 0, 59)
    /\ Coalesce(timestamp.seconds, Num(0)).k = "fin"
    /\ Coalesce(timestamp.seconds, Num(0)).v >= 0
    /\ Coalesce(timestamp.seconds, Num(0)).v < 60 * Res

isValidTimestamp(value) == isTimestamp(value) /\ isValid(value)

\* toReferenceSeconds with || in place of ??: a field of 0 takes its default.
Falsy(x, d) == IF x.k \in {"undef", "nan"} \/ x = Num(0) THEN d ELSE x

toReferenceSecondsFalsy(timestamp) ==
    LET year == Falsy(timestamp.year, Num(1))
        month == Falsy(timestamp.month, Num(1))
        day == Falsy(timestamp.day, Num(1))
        hours == Falsy(timestamp.hours, Num(0))
        minutes == Falsy(timestamp.minutes, Num(0))
        seconds == Falsy(timestamp.seconds, Num(0))
    IN DaysPlusSeconds(
           toReferenceDays([year |-> year, month |-> month, day |-> day]),
           timeToReferenceSeconds(
               [hours |-> hours, minutes |-> minutes, seconds |-> seconds]))

\* toReferenceSeconds taking the month as zero-based, as a JsDate month is.
toReferenceSecondsMonthFromZero(timestamp) ==
    LET year == Coalesce(timestamp.year, Num(1))
        month == Add(Coalesce(timestamp.month, Num(1)), Num(1))
        day == Coalesce(timestamp.day, Num(1))
        hours == Coalesce(timestamp.hours, Num(0))
        minutes == Coalesce(timestamp.minutes, Num(0))
        seconds == Coalesce(timestamp.seconds, Num(0))
    IN DaysPlusSeconds(
           toReferenceDays([year |-> year, month |-> month, day |-> day]),
           timeToReferenceSeconds(
               [hours |-> hours, minutes |-> minutes, seconds |-> seconds]))

\* toReferenceSeconds numbering the years without a year 0: year 0 and every
\* year before it is taken one year later.
toReferenceSecondsNoYearZero(timestamp) ==
    LET y0 == Coalesce(timestamp.year, Num(1))
        year == IF y0.k = "fin" /\ y0.v <= 0 THEN Add(y0, Num(1)) ELSE y0
        month == Coalesce(timestamp.month, Num(1))
        day == Coalesce(timestamp.day, Num(1))
        hours == Coalesce(timestamp.hours, Num(0))
        minutes == Coalesce(timestamp.minutes, Num(0))
        seconds == Coalesce(timestamp.seconds, Num(0))
    IN DaysPlusSeconds(
           toReferenceDays([year |-> year, month |-> month, day |-> day]),
           timeToReferenceSeconds(
               [hours |-> hours, minutes |-> minutes, seconds |-> seconds]))

\* toReferenceSeconds with 0 as the default of every field
toReferenceSecondsDefaultZero(timestamp) ==
    LET year == Coalesce(timestamp.year, Num(0))
        month == Coalesce(timestamp.month, Num(0))
        day == Coalesce(timestamp.day, Num(0))
        hours == Coalesce(timestamp.hours, Num(0))
        minutes == Coalesce(timestamp.minutes, Num(0))
        seconds == Coalesce(timestamp.seconds, Num(0))
    IN DaysPlusSeconds(
           toReferenceDays([year |-> year, month |-> month, day |-> day]),
           timeToReferenceSeconds(
               [hours |-> hours, minutes |-> minutes, seconds |-> seconds]))

toReferenceSeconds(timestamp) ==
    LET year == Coalesce(timestamp.year, Num(1))
        month == Coalesce(timestamp.month, Num(1))
        day == Coalesce(timestamp.day, Num(1))
        hours == Coalesce(timestamp.hours, Num(0))
        minutes == Coalesce(timestamp.minutes, Num(0))
        seconds == Coalesce(timestamp.seconds, Num(0))
    IN DaysPlusSeconds(
           toReferenceDays([year |-> year, month |-> month, day |-> day]),
           timeToReferenceSeconds(
               [hours |-> hours, minutes |-> minutes, seconds |-> seconds]))

\* Math.floor(referenceSeconds / 86400) of a finite count
FloorDays(referenceSeconds) == referenceSeconds.d

\* referenceSeconds - referenceDays * 86400, in units of 1/Res
SecondsOfDay(referenceSeconds, referenceDays) ==
    (referenceSeconds.d - referenceDays) * DayUnits + referenceSeconds.s

\* fromReferenceSeconds with Math.trunc in place of Math.floor.
TruncDays(referenceSeconds) ==
    IF referenceSeconds.d < 0 /\ referenceSeconds.s # 0
        THEN referenceSeconds.d + 1
        ELSE referenceSeconds.d

fromReferenceSecondsTrunc(referenceSeconds) ==
    IF referenceSeconds.k # "fin" THEN Thrown
    ELSE LET referenceDays == TruncDays(referenceSeconds)
             date == fromReferenceDays(referenceDays)
             time == timeFromReferenceSeconds(
                         SecondsOfDay(referenceSeconds, referenceDays))
         IN Ok(Options("Timestamp", date.year, date.month, date.day,
                       time.hours, time.minutes, time.seconds))

\* fromReferenceSeconds without the isFinite guard: a non-finite count gives
\* a Timestamp of NaN fields.
fromReferenceSecondsUnchecked(referenceSeconds) ==
    IF referenceSeconds.k # "fin"
        THEN Ok(Options("Timestamp", NaN, NaN, NaN, NaN, NaN, NaN))
    ELSE LET referenceDays == FloorDays(referenceSeconds)
             date == fromReferenceDays(referenceDays)
             time == timeFromReferenceSeconds(
                         SecondsOfDay(referenceSeconds, referenceDays))
         IN Ok(Options("Timestamp", date.year, date.month, date.day,
                       time.hours, time.minutes, time.seconds))

fromReferenceSeconds(referenceSeconds) ==
    IF referenceSeconds.k # "fin" THEN Thrown
    ELSE LET referenceDays == FloorDays(referenceSeconds)
             date == fromReferenceDays(referenceDays)
             time == timeFromReferenceSeconds(
                         SecondsOfDay(referenceSeconds, referenceDays))
         IN Ok(Options("Timestamp", date.year, date.month, date.day,
                       time.hours, time.minutes, time.seconds))

\* timestamp that fills in the defaults and the type without normalizing.
timestampNoNormalize(options) ==
    Ok(Options("Timestamp",
               Coalesce(options.year, Num(1)), Coalesce(options.month, Num(1)),
               Coalesce(options.day, Num(1)), Coalesce(options.hours, Num(0)),
               Coalesce(options.minutes, Num(0)), Coalesce(options.seconds, Num(0))))

\* timestamp that clamps the month into 1..12 instead of carrying it.
timestampClampMonth(options) ==
    LET m == options.month
        clamped == IF m.k # "fin" THEN m
                   ELSE IF m.v < Res THEN Num(1)
                   ELSE IF m.v > 12 * Res THEN Num(12)
                   ELSE m
    IN fromReferenceSeconds(toReferenceSeconds([options EXCEPT !.month = clamped]))

timestamp(options) == fromReferenceSeconds(toReferenceSeconds(options))

\* equal that compares the fields as they are written
equalAsWritten(x, y) == x = y

equal(x, y) == RefSame(toReferenceSeconds(x), toReferenceSeconds(y))

notEqual(x, y) == ~RefSame(toReferenceSeconds(x), toReferenceSeconds(y))

\* compare with before and after exchanged
compareExchanged(x, y) ==
    LET as == toReferenceSeconds(x)
        bs == toReferenceSeconds(y)
    IN IF RefLess(as, bs) THEN "after"
       ELSE IF RefLess(bs, as) THEN "before"
       ELSE IF RefSame(as, bs) THEN "equal"
       ELSE "undefined"

\* compare with the last branch returning Comparison.equal
compareUnorderedEqual(x, y) ==
    LET as == toReferenceSeconds(x)
        bs == toReferenceSeconds(y)
    IN IF RefLess(as, bs) THEN "before"
       ELSE IF RefLess(bs, as) THEN "after"
       ELSE "equal"

compare(x, y) ==
    LET as == toReferenceSeconds(x)
        bs == toReferenceSeconds(y)
    IN IF RefLess(as, bs) THEN "before"
       ELSE IF RefLess(bs, as) THEN "after"
       ELSE IF RefSame(as, bs) THEN "equal"
       ELSE "undefined"

\* before with <= in place of <.
beforeOrSame(x, y) ==
    \/ RefLess(toReferenceSeconds(x), toReferenceSeconds(y))
    \/ RefSame(toReferenceSeconds(x), toReferenceSeconds(y))

before(x, y) == RefLess(toReferenceSeconds(x), toReferenceSeconds(y))

after(x, y) == RefLess(toReferenceSeconds(y), toReferenceSeconds(x))

\* x <= y of two numbers
RefLessOrSame(x, y) ==
    IF x.k = "nan" \/ y.k = "nan" THEN FALSE
    ELSE IF x.k = "fin" /\ y.k = "fin" THEN x.d < y.d \/ (x.d = y.d /\ x.s <= y.s)
    ELSE IF x.k = "ninf" THEN TRUE
    ELSE IF y.k = "pinf" THEN TRUE
    ELSE FALSE

beforeOrEqual(x, y) == RefLessOrSame(toReferenceSeconds(x), toReferenceSeconds(y))

afterOrEqual(x, y) == RefLessOrSame(toReferenceSeconds(y), toReferenceSeconds(x))

earliest(x, y) ==
    LET as == toReferenceSeconds(x)
        bs == toReferenceSeconds(y)
    IN fromReferenceSeconds(IF RefLess(as, bs) THEN as ELSE bs)

latest(x, y) ==
    LET as == toReferenceSeconds(x)
        bs == toReferenceSeconds(y)
    IN fromReferenceSeconds(IF RefLess(bs, as) THEN as ELSE bs)

(***************************************************************************)
(* The curried variants: fn(b)(a), written fn(y, x) with y the operand     *)
(* given first.                                                            *)
(***************************************************************************)
equalFn(y, x) == equal(x, y)

notEqualFn(y, x) == notEqual(x, y)

compareFn(y, x) == compare(x, y)

\* beforeFn that takes the left-hand operand first
beforeFnLeftFirst(y, x) == before(y, x)

beforeFn(y, x) == before(x, y)

beforeOrEqualFn(y, x) == beforeOrEqual(x, y)

afterFn(y, x) == after(x, y)

afterOrEqualFn(y, x) == afterOrEqual(x, y)

earliestFn(y, x) == earliest(x, y)

latestFn(y, x) == latest(x, y)

\* The names of the curried variants that return a boolean
BooleanFns == {"equalFn", "notEqualFn", "beforeFn", "beforeOrEqualFn", "afterFn",
               "afterOrEqualFn"}

\* fn(y)(x) of a curried variant that returns a boolean
CallBooleanFn(fn, y, x) ==
    CASE fn = "equalFn" -> equalFn(y, x)
      [] fn = "notEqualFn" -> notEqualFn(y, x)
      [] fn = "beforeFn" -> beforeFn(y, x)
      [] fn = "beforeOrEqualFn" -> beforeOrEqualFn(y, x)
      [] fn = "afterFn" -> afterFn(y, x)
      [] fn = "afterOrEqualFn" -> afterOrEqualFn(y, x)

(***************************************************************************)
(* earliest and latest of a sequence of Timestamps.  The two functions     *)
(* take a sequence in src/unnamed/part_002 (the current index.ts takes two *)
(* Timestamps); minimum, maximum and map come from                         *)
(* @softwareventures/iterable, mapNullable from @softwareventures/nullable.*)
(***************************************************************************)
\* null in place of a number
RefNull == [k |-> "null", d |-> 0, s |-> 0]

\* map(timestamps, toReferenceSeconds)
mapToReferenceSeconds(timestamps) ==
    [i \in 1..Len(timestamps) |-> toReferenceSeconds(timestamps[i])]

RECURSIVE minimumFrom(_, _)
minimumFrom(least, xs) ==
    IF xs = <<>> THEN least
    ELSE minimumFrom(IF RefLess(xs[1], least) THEN xs[1] ELSE least, Tail(xs))

\* minimum(iterable): null when it is empty
minimum(xs) == IF xs = <<>> THEN RefNull ELSE minimumFrom(xs[1], Tail(xs))

RECURSIVE maximumFrom(_, _)
maximumFrom(greatest, xs) ==
    IF xs = <<>> THEN greatest
    ELSE maximumFrom(IF RefLess(greatest, xs[1]) THEN xs[1] ELSE greatest, Tail(xs))

\* maximum(iterable): null when it is empty
maximum(xs) == IF xs = <<>> THEN RefNull ELSE maximumFrom(xs[1], Tail(xs))

\* earliest that returns the last Timestamp of the sequence
earliestOfSequenceLast(timestamps) ==
    IF timestamps = <<>> THEN Null
    ELSE fromReferenceSeconds(toReferenceSeconds(timestamps[Len(timestamps)]))

\* earliest(timestamps: Iterable)
earliestOfSequence(timestamps) ==
    LET least == minimum(mapToReferenceSeconds(timestamps))
    IN \* mapNullable(least, fromReferenceSeconds)
       IF least = RefNull THEN Null ELSE fromReferenceSeconds(least)

\* latest(timestamps: Iterable)
latestOfSequence(timestamps) ==
    LET greatest == maximum(mapToReferenceSeconds(timestamps))
    IN \* mapNullable(greatest, fromReferenceSeconds)
       IF greatest = RefNull THEN Null ELSE fromReferenceSeconds(greatest)

(***************************************************************************)
(* Text.  A string is a sequence of one-character strings.                 *)
(***************************************************************************)
DigitChars == <<"0", "1", "2", "3", "4", "5", "6", "7", "8", "9">>

\* \d
IsDigit(c) == \E i \in 1..10 : DigitChars[i] = c

\* \s (the space and the tab stand for every whitespace character)
IsSpace(c) == c \in {" ", "\t"}

AllDigits(s) == \A i \in 1..Len(s) : IsDigit(s[i])

DigitValue(c) == (CHOOSE i \in 1..10 : DigitChars[i] = c) - 1

\* The value of a run of decimal digits.
RECURSIVE DigitsValue(_)
DigitsValue(s) ==
    IF s = <<>> THEN 0
    ELSE DigitsValue(SubSeq(s, 1, Len(s) - 1)) * 10 + DigitValue(s[Len(s)])

RECURSIVE PowerOfTen(_)
PowerOfTen(n) == IF n = 0 THEN 1 ELSE 10 * PowerOfTen(n - 1)

\* parseInt(s, 10) of an optionally signed run of digits
parseInt(s) ==
    IF s[1] = "-" THEN 0 - DigitsValue(Tail(s))
    ELSE IF s[1] = "+" THEN DigitsValue(Tail(s))
    ELSE DigitsValue(s)

\* Math.sign(n)
Sign(n) == IF n > 0 THEN 1 ELSE IF n < 0 THEN -1 ELSE 0

\* parseFloat(s.replace(",", ".")) of digits, optionally followed by '.' or
\* ',' and more digits, in units of 1/Res.  The fractions supplied are whole
\* numbers of units.
parseFloat(s) ==
    LET seps == {i \in 1..Len(s) : s[i] \in {".", ","}}
    IN IF seps = {} THEN Num(DigitsValue(s))
       ELSE LET i == CHOOSE j \in seps : TRUE
                whole == SubSeq(s, 1, i - 1)
                frac == SubSeq(s, i + 1, Len(s))
            IN Fin(DigitsValue(whole) * Res
                   + (DigitsValue(frac) * Res) \div PowerOfTen(Len(frac)))

\* The end of the run of digits of s that starts at position i (i - 1 when
\* there is none).
RECURSIVE DigitRunEnd(_, _)
DigitRunEnd(s, i) ==
    IF i <= Len(s) /\ IsDigit(s[i]) THEN DigitRunEnd(s, i + 1) ELSE i - 1

RECURSIVE SpaceRunEnd(_, _)
SpaceRunEnd(s, i) ==
    IF i <= Len(s) /\ IsSpace(s[i]) THEN SpaceRunEnd(s, i + 1) ELSE i - 1

NoMatch == [ok |-> FALSE, g |-> <<>>]

\* ^([+-]?\d{4,})-?(\d{2})-?(\d{2})$ : the groups, or <<>>
MatchDate(d) ==
    LET n == Len(d)
        p1 == n - 2
        p2 == IF p1 >= 1 /\ d[p1] = "-" THEN p1 - 1 ELSE p1
        p3 == p2 - 2
        p4 == IF p3 >= 1 /\ d[p3] = "-" THEN p3 - 1 ELSE p3
        year == SubSeq(d, 1, p4)
        digits == IF year[1] \in {"+", "-"} THEN Tail(year) ELSE year
    IN IF n >= 8 /\ p4 >= 4 /\ AllDigits(SubSeq(d, n - 1, n))
          /\ AllDigits(SubSeq(d, p2 - 1, p2))
          /\ Len(digits) >= 4 /\ AllDigits(digits)
           THEN <<year, SubSeq(d, p2 - 1, p2), SubSeq(d, n - 1, n)>>
           ELSE <<>>

\* ^(\d{2}):?(\d{2}):?(\d{2}(?:[.,]?\d+)?)(?:Z|([+-][0-9]{2}):?([0-9]{2}))$
\* with the i flag: the groups (<<>> for a group that took no part), or <<>>
MatchTime(t) ==
    LET n == Len(t)
        q1 == IF n >= 3 /\ t[3] = ":" THEN 4 ELSE 3
        q2 == IF n >= q1 + 2 /\ t[q1 + 2] = ":" THEN q1 + 3 ELSE q1 + 2
        q3 == q2 + 2
        e == IF q3 <= n /\ t[q3] \in {".", ","}
                 THEN (IF DigitRunEnd(t, q3 + 1) > q3
                           THEN DigitRunEnd(t, q3 + 1) ELSE q3 - 1)
                 ELSE DigitRunEnd(t, q3)
        r == SubSeq(t, e + 1, n)
        zone == IF Len(r) = 1 /\ r[1] \in {"Z", "z"} THEN <<<<>>, <<>>>>
                ELSE IF Len(r) = 5 /\ r[1] \in {"+", "-"}
                        /\ AllDigits(SubSeq(r, 2, 5))
                    THEN <<SubSeq(r, 1, 3), SubSeq(r, 4, 5)>>
                ELSE IF Len(r) = 6 /\ r[1] \in {"+", "-"} /\ r[4] = ":"
                        /\ AllDigits(SubSeq(r, 2, 3)) /\ AllDigits(SubSeq(r, 5, 6))
                    THEN <<SubSeq(r, 1, 3), SubSeq(r, 5, 6)>>
                ELSE <<>>
    IN IF n >= 7 /\ AllDigits(SubSeq(t, 1, 2))
          /\ q1 + 1 <= n /\ AllDigits(SubSeq(t, q1, q1 + 1))
          /\ q2 + 1 <= n /\ AllDigits(SubSeq(t, q2, q2 + 1))
          /\ zone # <<>>
           THEN <<SubSeq(t, 1, 2), SubSeq(t, q1, q1 + 1), SubSeq(t, q2, e)>> \o zone
           ELSE <<>>

\* The regular expression of parseIso8601, executed on text: the date runs
\* to the first T or whitespace, the time follows the T or the whitespace.
Iso8601Match(text) ==
    LET delims == {i \in 1..Len(text) : text[i] \in {"T", "t"} \/ IsSpace(text[i])}
    IN IF delims = {} THEN NoMatch
       ELSE LET i == CHOOSE j \in delims : \A k \in delims : j <= k
                j == IF IsSpace(text[i]) THEN SpaceRunEnd(text, i) ELSE i
                date == MatchDate(SubSeq(text, 1, i - 1))
                time == MatchTime(SubSeq(text, j + 1, Len(text)))
            IN IF date # <<>> /\ time # <<>>
                   THEN [ok |-> TRUE, g |-> date \o time]
                   ELSE NoMatch

\* parseIso8601 after a successful match: the offset, the fields, timestamp.
parseMatch(g) ==
    LET offsetHours == IF g[7] = <<>> THEN 0 ELSE parseInt(g[7])
        offsetMinutes == IF g[8] = <<>> THEN 0
                         ELSE parseInt(g[8]) * Sign(offsetHours)
        year == parseInt(g[1])
        month == parseInt(g[2])
        day == parseInt(g[3])
        hours == parseInt(g[4]) - offsetHours
        minutes == parseInt(g[5]) - offsetMinutes
        seconds == parseFloat(g[6])
    IN timestamp(Options("absent", Num(year), Num(month), Num(day),
                         Num(hours), Num(minutes), seconds))

\* parseIso8601 with the time zone designator optional (UTC when absent)
parseIso8601ZoneOptional(text) ==
    LET match == Iso8601Match(text)
        zoned == Iso8601Match(text \o <<"Z">>)
    IN IF match.ok THEN parseMatch(match.g)
       ELSE IF zoned.ok THEN parseMatch(zoned.g)
       ELSE Null

\* parseIso8601 that requires the ':' separators of the extended format
parseIso8601ExtendedOnly(text) ==
    LET match == Iso8601Match(text)
    IN IF ~match.ok \/ Cardinality({i \in 1..Len(text) : text[i] = ":"}) < 2
           THEN Null
           ELSE parseMatch(match.g)

parseIso8601(text) ==
    LET match == Iso8601Match(text)
    IN IF ~match.ok THEN Null ELSE parseMatch(match.g)

(***************************************************************************)
(* Formatting.                                                             *)
(***************************************************************************)
\* String(n) of a whole number n >= 0
RECURSIVE NatString(_)
NatString(n) ==
    IF n < 10 THEN <<DigitChars[n + 1]>>
    ELSE NatString(n \div 10) \o <<DigitChars[(n % 10) + 1]>>

\* String(x) of a finite number x, in units of 1/Res (Res divides 100: the
\* fraction is a whole number of hundredths)
String(x) ==
    LET neg == x.v < 0
        abs == IF neg THEN 0 - x.v ELSE x.v
        hundredths == ((abs % Res) * 100) \div Res
        frac == IF hundredths = 0 THEN <<>>
                ELSE IF hundredths % 10 = 0
                    THEN <<".", DigitChars[(hundredths \div 10) + 1]>>
                ELSE <<".", DigitChars[(hundredths \div 10) + 1],
                       DigitChars[(hundredths % 10) + 1]>>
    IN (IF neg THEN <<"-">> ELSE <<>>) \o NatString(abs \div Res) \o frac

\* s.padStart(n, "0")
RECURSIVE padStart(_, _)
padStart(s, n) == IF Len(s) >= n THEN s ELSE padStart(<<"0">> \o s, n)

\* s.replace(/^\d+/, s => s.padStart(2, "0"))
padLeadingDigits(s) ==
    LET e == DigitRunEnd(s, 1)
    IN IF e < 1 THEN s
       ELSE padStart(SubSeq(s, 1, e), 2) \o SubSeq(s, e + 1, Len(s))

padYear(t) == padStart(String(timestamp(t).t.year), 4)

padMonth(t) == padStart(String(timestamp(t).t.month), 2)

padDay(t) == padStart(String(timestamp(t).t.day), 2)

padHours(t) == padStart(String(timestamp(t).t.hours), 2)

\* Math.trunc
Trunc(x) == Fin((x.v \div Res) * Res)

\* formatIso8601 with the seconds cut to whole seconds
formatIso8601Truncated(t) ==
    LET n == timestamp(t).t
    IN padYear(t) \o <<"-">> \o padMonth(t) \o <<"-">> \o padDay(t) \o <<"T">>
       \o padHours(t) \o <<":">> \o padStart(String(n.minutes), 2) \o <<":">>
       \o padLeadingDigits(String(Trunc(n.seconds))) \o <<"Z">>

\* formatIso8601 of an input that normalize accepts
formatIso8601(t) ==
    LET n == timestamp(t).t
    IN padYear(t) \o <<"-">> \o padMonth(t) \o <<"-">> \o padDay(t) \o <<"T">>
       \o padHours(t) \o <<":">> \o padStart(String(n.minutes), 2) \o <<":">>
       \o padLeadingDigits(String(n.seconds)) \o <<"Z">>

(***************************************************************************)
(* The day of the week.                                                    *)
(***************************************************************************)
daysOfWeek ==
    <<"Sunday", "Monday", "Tuesday", "Wednesday", "Thursday", "Friday", "Saturday">>

\* n % m of whole numbers in JavaScript: the sign of n
Rem(n, m) == IF n >= 0 THEN n % m ELSE 0 - ((0 - n) % m)

\* daysOfWeek[i]: undefined outside the table
DayAt(i) == IF i \in 0..6 THEN daysOfWeek[i + 1] ELSE "undefined"

\* dayOfWeek adding 1 in place of 8
dayOfWeekAddOne(t) ==
    LET n == timestamp(t).t
        days == toReferenceDays([year |-> n.year, month |-> n.month, day |-> n.day])
    IN DayAt(Rem(1 + Rem(days.v \div Res, 7), 7))

\* dayOfWeek of an input that normalize accepts
dayOfWeek(t) ==
    LET n == timestamp(t).t
        days == toReferenceDays([year |-> n.year, month |-> n.month, day |-> n.day])
    IN DayAt(Rem(8 + Rem(days.v \div Res, 7), 7))

(***************************************************************************)
(* Inputs.                                                                 *)
(***************************************************************************)
PivotYears == {-400, -100, 0, 1900, 2000, 2020}

Years == UNION {(p - YearRadius)..(p + YearRadius) : p \in PivotYears}

Months == (0..14) \cup {23, 24}

Days == {0, 1, 2, 28, 29, 30, 31, 32}

Hours == {-1, 0, 23, 24}

Minutes == {-1, 0, 59, 60}

\* Seconds in units of 1/Res: -1/Res, 0, 1/Res, 60 - 1/Res, 60, 61 + 1/Res
SecondUnits == {-1, 0, 1, 60 * Res - 1, 60 * Res, 61 * Res + 1}

Whole(y, m, d, h, mi, s) ==
    Options("absent", Num(y), Num(m), Num(d), Num(h), Num(mi), Fin(s))

\* Every date, at a few times of day.
DateInputs ==
    {Whole(y, m, d, t[1], t[2], t[3]) :
        y \in Years, m \in Months, d \in Days,
        t \in {<<0, 0, 0>>, <<23, 59, 60 * Res - 1>>, <<24, 0, 60 * Res>>,
               <<-1, -1, -1>>}}

\* Every time of day, on a few dates.
TimeInputs ==
    {Whole(y, md[1], md[2], h, mi, s) :
        y \in {0, 1, 2020, 2021},
        md \in {<<1, 1>>, <<2, 28>>, <<3, 0>>, <<12, 31>>, <<13, 1>>},
        h \in Hours, mi \in Minutes, s \in SecondUnits}

\* Options with omitted fields.
YearOnly(y) ==
    Options("absent", Num(y), Undefined, Undefined, Undefined, Undefined, Undefined)

PartialInputs ==
    {NoOptions}
    \cup {YearOnly(y) : y \in Years}
    \cup {Options("absent", Num(y), Num(m), Num(d), Num(h), Undefined, Undefined) :
            y \in {0, 2021}, m \in {2, 13}, d \in {0, 29}, h \in {0, 25}}

\* Options with a non-finite field.  Non-finite calendar fields are NaN only.
NonFinite == {NaN, PosInf, NegInf}

NonFiniteInputs ==
    {[Whole(2021, 4, 30, 13, 11, 27 * Res + 1) EXCEPT ![f] = NaN] :
        f \in {"year", "month", "day"}}
    \cup {[Whole(y, 4, 30, 13, 11, 27 * Res + 1) EXCEPT ![f] = x] :
            y \in {0, 2021}, f \in {"hours", "minutes", "seconds"}, x \in NonFinite}
    \cup {[Whole(2021, 4, 30, 13, 11, 0) EXCEPT !.hours = x, !.minutes = z] :
            x \in NonFinite, z \in NonFinite}
    \cup {[YearOnly(2021) EXCEPT !.seconds = x] : x \in NonFinite}

TimestampInputs == DateInputs \cup TimeInputs \cup PartialInputs \cup NonFiniteInputs

\* Reference-second counts handed to fromReferenceSeconds.
ReferenceInputs ==
    {Ref(d, s) :
        d \in {-146098, -146097, -366, -1, 0, 1, 365, 36524, 146096, 146097, 737909},
        s \in {0 - Res, -1, 0, 1, DayUnits \div 2, DayUnits - 1}}
    \cup {RefNaN, RefPosInf, RefNegInf}

\* Operands of the comparisons.
CompareInputs ==
    {YearOnly(y) : y \in Years}
    \cup {Whole(y, m, 1, 0, 0, s) : y \in {0, 2021}, m \in {0, 1, 12, 13}, s \in {0, 1}}
    \cup {Whole(2021, 12, 31, 24, 0, 0), Whole(2021, 12, 31, 23, 59, 60 * Res),
          Whole(1, 1, 1, 0, 0, -1), Whole(0, 12, 31, 23, 59, 60 * Res - 1)}
    \cup {[Whole(2021, 1, 1, 0, 0, 0) EXCEPT !.hours = x] : x \in NonFinite}
    \cup {[Whole(2021, 1, 1, 0, 0, 0) EXCEPT !.hours = PosInf, !.minutes = NegInf]}
    \cup {Whole(2022, 1, 1, 0, 0, 0)}

\* Arguments of isValid: any number, or nothing, in every field.
Frac(n) == Fin(n * Res + 1)

ValidDateInputs ==
    {Options(ty, y, m, d, t[1], t[2], t[3]) :
        ty \in {"absent", "Timestamp"},
        y \in {Num(2020), Num(2021), Num(2000), Num(1900), Num(0), Num(-4),
               Frac(2020), Undefined, NaN},
        m \in {Num(0), Num(1), Num(2), Num(4), Num(12), Num(13), Frac(1), Undefined},
        d \in {Num(0), Num(1), Num(28), Num(29), Num(30), Num(31), Num(32),
               Frac(1), Undefined},
        t \in {<<Num(0), Num(0), Num(0)>>, <<Num(0), Undefined, Undefined>>,
               <<Undefined, Undefined, Undefined>>}}

ValidTimeInputs ==
    {Options("absent", Num(y), Num(2), Num(d), h, mi, s) :
        y \in {2020, 2021}, d \in {28, 29},
        h \in {Num(-1), Num(0), Num(23), Num(24), Frac(0), Undefined, NaN},
        mi \in {Num(-1), Num(0), Num(59), Num(60), Frac(0), Undefined, PosInf},
        s \in {Fin(-1), Num(0), Frac(0), Fin(60 * Res - 1), Num(60), Undefined,
               NaN, PosInf, NegInf}}

ValidInputs == ValidDateInputs \cup ValidTimeInputs

(***************************************************************************)
(* Texts handed to parseIso8601 and options handed to formatIso8601.       *)
(***************************************************************************)
\* Two decimal digits
Pad2(n) == padStart(NatString(n), 2)

YearText(sign, n, width) == sign \o padStart(NatString(n), width)

\* ".25": the fraction text of k units of 1/Res, 0 < k < Res
FracText(k) == Tail(String(Fin(k)))

ZoneText(sign, hh, sep, mm) == <<sign>> \o Pad2(hh) \o sep \o Pad2(mm)

IsoText(year, ds, month, day, delim, hours, ts, minutes, seconds, zone) ==
    year \o ds \o Pad2(month) \o ds \o Pad2(day) \o delim
    \o Pad2(hours) \o ts \o Pad2(minutes) \o ts \o seconds \o zone

Dash == <<"-">>

Colon == <<":">>

Zulu == <<"Z">>

NotADate == <<"n", "o", "t", "-", "a", "-", "d", "a", "t", "e">>

YearTexts ==
    {YearText(<<>>, y, 4) : y \in {0, 5, 1994, 2021, 9999, 10000}}
    \cup {YearText(<<"-">>, 5, 4), YearText(<<"-">>, 10000, 4),
          YearText(<<"+">>, 2021, 4), YearText(<<>>, 2021, 5)}

\* Local times with a numeric offset
OffsetInputs ==
    {IsoText(YearText(<<>>, 1994, 4), Dash, md[1], md[2], <<"T">>, h, Colon, mi,
             Pad2(30), ZoneText(sg, zh, sep, zm)) :
        md \in {<<11, 5>>, <<1, 1>>, <<12, 31>>}, h \in {0, 8, 23},
        mi \in {0, 15, 59}, sg \in {"+", "-"}, zh \in {0, 1, 5, 23},
        sep \in {<<>>, Colon}, zm \in {0, 30, 59}}

\* The extended UTC form with whole seconds
UtcInputs ==
    {IsoText(y, Dash, m, d, <<"T">>, h, Colon, mi, Pad2(sec), Zulu) :
        y \in YearTexts, m \in {1, 2, 12}, d \in {1, 28, 31},
        h \in {0, 13, 23}, mi \in {0, 59}, sec \in {0, 7, 59}}

\* Texts of the right shape, one field out of its range
InvalidFieldInputs ==
    {IsoText(YearText(<<>>, 2021, 4), Dash, md[1], md[2], <<"T">>, 13, Colon, 11,
             Pad2(27), Zulu) :
        md \in {<<0, 30>>, <<13, 30>>, <<4, 0>>, <<4, 31>>, <<2, 29>>, <<2, 30>>,
                <<4, 32>>, <<0, 0>>}}
    \cup {IsoText(YearText(<<>>, 2021, 4), Dash, 4, 30, <<"T">>, t[1], Colon, t[2],
                  Pad2(t[3]), Zulu) :
        t \in {<<24, 0, 0>>, <<25, 11, 27>>, <<13, 60, 27>>, <<13, 11, 60>>,
               <<13, 11, 61>>, <<99, 99, 99>>}}

\* The same digits in the extended and in the basic form, every delimiter,
\* every fraction separator
FormInputs ==
    {IsoText(y, ds, 4, 30, delim, 13, ts, 11, Pad2(27) \o fr, zone) :
        y \in {YearText(<<>>, 2021, 4), YearText(<<"-">>, 5, 4)},
        ds \in {<<>>, Dash}, ts \in {<<>>, Colon},
        delim \in {<<"T">>, <<"t">>, <<" ">>, <<" ", "\t", " ">>},
        fr \in {<<>>, FracText(1), <<",">> \o Tail(FracText(1)),
                Tail(FracText(Res - 1)), <<"2", "4", "5">>},
        zone \in {Zulu, <<"z">>, ZoneText("+", 5, Colon, 30),
                  ZoneText("+", 5, <<>>, 30), ZoneText("-", 5, <<>>, 30)}}

\* Texts the grammar rejects
MalformedInputs ==
    {NotADate, <<>>, Zulu, <<"T">>}
    \cup {IsoText(y, ds, 4, 30, delim, 13, ts, 11, Pad2(27) \o fr, zone) :
        y \in {YearText(<<>>, 2021, 4), YearText(<<>>, 202, 3),
               YearText(<<"-">>, 5, 4)},
        ds \in {<<>>, Dash}, ts \in {<<>>, Colon},
        delim \in {<<>>, <<"T">>, <<"T", " ">>, <<"x">>},
        fr \in {<<>>, FracText(1), <<".">>},
        zone \in {<<>>, Zulu, <<"Z", "Z">>, ZoneText("+", 5, Colon, 30),
                  <<"0", "5">> \o Colon \o <<"3", "0">>,
                  <<"+", "5">> \o Colon \o <<"3", "0">>}}

ParseInputs ==
    OffsetInputs \cup UtcInputs \cup InvalidFieldInputs \cup FormInputs
    \cup MalformedInputs

FormatInputs ==
    {Whole(y, m, d, h, mi, sec) :
        y \in {-10000, -5, -1, 0, 5, 999, 1994, 2021, 9999, 10000},
        m \in {1, 4, 12, 13}, d \in {1, 30}, h \in {0, 13}, mi \in {0, 11},
        sec \in {0, 7 * Res + 1, 27 * Res + 1, 27 * Res + Res - 1,
                 30 * Res, 59 * Res + Res - 1}}
    \cup {YearOnly(y) : y \in {-5, 5, 10000}}
    \cup {[Whole(2021, 1, 1, 0, 0, 0) EXCEPT !.seconds = x] : x \in NonFinite}

\* Longest sequence handed to earliest and latest
MaxSeq == 3

\* Timestamps of sequences: three ways to write 2021-01-01T00:00:00, its
\* neighbours a fraction of a second away, a negative year, a default
SequenceElements ==
    {Whole(2021, 1, 1, 0, 0, 0), Whole(2020, 12, 31, 24, 0, 0),
     Whole(2020, 13, 1, 0, 0, 0), Whole(2021, 1, 1, 0, 0, 1),
     Whole(2020, 12, 31, 23, 59, 60 * Res - 1), Whole(-5, 2, 29, 0, 0, 0),
     YearOnly(10000)}

SequenceInputs ==
    UNION {[1..n -> SequenceElements] : n \in 0..MaxSeq}

DayOfWeekInputs ==
    {Whole(y, m, d, h, 0, 0) :
        y \in {-400, -1, 0, 1, 2021}, m \in {1, 3, 4, 12}, d \in 0..32, h \in {0, 25}}
    \cup {[Whole(2021, 1, 1, 0, 0, 0) EXCEPT !.day = x] : x \in NonFinite}

(***************************************************************************)
(* The state machine: each action is one call of an exported function.     *)
(* A call with fresh arguments is made from the initial state; Normalize   *)
(* and IsValidTimestamp are then applied to the Timestamp it returned.     *)
(***************************************************************************)
Init ==
    /\ op = "init"
    /\ a = NoOptions
    /\ b = NoOptions
    /\ out = NoOutcome
    /\ val = NoVal

\* timestamp(o)
Timestamp ==
    /\ op = "init"
    /\ \E o \in TimestampInputs :
        /\ op' = "timestamp"
        /\ a' = o
        /\ b' = NoOptions
        /\ out' = timestamp(o)
        /\ val' = [NoVal EXCEPT !.rs = toReferenceSeconds(o)]

\* normalize(t) of a Timestamp t the library returned; b keeps the options
\* t was made from
Normalize ==
    /\ op \in {"timestamp", "fromReferenceSeconds"}
    /\ out.tag = "ok"
    /\ op' = "normalize"
    /\ a' = out.t
    /\ b' = a
    /\ out' = timestamp(out.t)
    /\ val' = [NoVal EXCEPT !.rs = toReferenceSeconds(out.t)]

\* fromReferenceSeconds(v)
FromReferenceSeconds ==
    /\ op = "init"
    /\ \E v \in ReferenceInputs :
        /\ op' = "fromReferenceSeconds"
        /\ a' = NoOptions
        /\ b' = NoOptions
        /\ out' = fromReferenceSeconds(v)
        /\ val' = [NoVal EXCEPT !.rs = v]

\* isValidTimestamp(t) of a Timestamp the library returned
IsValidTimestamp ==
    /\ op \in {"timestamp", "fromReferenceSeconds", "normalize"}
    /\ out.tag = "ok"
    /\ op' = "isValidTimestamp"
    /\ a' = out.t
    /\ b' = NoOptions
    /\ out' = NoOutcome
    /\ val' = [NoVal EXCEPT !.flag = isValidTimestamp(out.t)]

\* isValid(o)
IsValid ==
    /\ op = "init"
    /\ \E o \in ValidInputs :
        /\ op' = "isValid"
        /\ a' = o
        /\ b' = NoOptions
        /\ out' = NoOutcome
        /\ val' = [NoVal EXCEPT !.flag = isValid(o)]

\* compare(x, y)
Compare ==
    /\ op = "init"
    /\ \E x \in CompareInputs, y \in CompareInputs :
        /\ op' = "compare"
        /\ a' = x
        /\ b' = y
        /\ out' = NoOutcome
        /\ val' = [NoVal EXCEPT !.cmp = compare(x, y)]

\* before(x, y)
Before ==
    /\ op = "init"
    /\ \E x \in CompareInputs, y \in CompareInputs :
        /\ op' = "before"
        /\ a' = x
        /\ b' = y
        /\ out' = NoOutcome
        /\ val' = [NoVal EXCEPT !.flag = before(x, y)]

\* equal(x, y)
Equal ==
    /\ op = "init"
    /\ \E x \in CompareInputs, y \in CompareInputs :
        /\ op' = "equal"
        /\ a' = x
        /\ b' = y
        /\ out' = NoOutcome
        /\ val' = [NoVal EXCEPT !.flag = equal(x, y)]

\* after(x, y)
After ==
    /\ op = "init"
    /\ \E x \in CompareInputs, y \in CompareInputs :
        /\ op' = "after"
        /\ a' = x
        /\ b' = y
        /\ out' = NoOutcome
        /\ val' = [NoVal EXCEPT !.flag = after(x, y)]

ParseIso8601 ==
    /\ op = "init"
    /\ \E text \in ParseInputs :
        /\ op' = "parseIso8601"
        /\ a' = NoOptions
        /\ b' = NoOptions
        /\ out' = parseIso8601(text)
        /\ val' = [NoVal EXCEPT !.txt = text]

FormatIso8601 ==
    /\ op = "init"
    /\ \E o \in FormatInputs :
        /\ op' = "formatIso8601"
        /\ a' = o
        /\ b' = NoOptions
        /\ out' = IF timestamp(o).tag = "ok" THEN NoOutcome ELSE Thrown
        /\ val' = IF timestamp(o).tag = "ok"
                      THEN [NoVal EXCEPT !.str = formatIso8601(o)]
                      ELSE NoVal

\* formatIso8601(parseIso8601(text))
FormatParsed ==
    /\ op = "parseIso8601"
    /\ out.tag = "ok"
    /\ op' = "formatParsed"
    /\ a' = out.t
    /\ b' = NoOptions
    /\ out' = out
    /\ val' = [val EXCEPT !.str = formatIso8601(out.t)]

EarliestOfSequence ==
    /\ op = "init"
    /\ \E timestamps \in SequenceInputs :
        /\ op' = "earliestOfSequence"
        /\ a' = NoOptions
        /\ b' = NoOptions
        /\ out' = earliestOfSequence(timestamps)
        /\ val' = [NoVal EXCEPT !.seq = timestamps]

LatestOfSequence ==
    /\ op = "init"
    /\ \E timestamps \in SequenceInputs :
        /\ op' = "latestOfSequence"
        /\ a' = NoOptions
        /\ b' = NoOptions
        /\ out' = latestOfSequence(timestamps)
        /\ val' = [NoVal EXCEPT !.seq = timestamps]

Earliest ==
    /\ op = "init"
    /\ \E x \in CompareInputs, y \in CompareInputs :
        /\ op' = "earliest"
        /\ a' = x
        /\ b' = y
        /\ out' = earliest(x, y)
        /\ val' = NoVal

Latest ==
    /\ op = "init"
    /\ \E x \in CompareInputs, y \in CompareInputs :
        /\ op' = "latest"
        /\ a' = x
        /\ b' = y
        /\ out' = latest(x, y)
        /\ val' = NoVal

DayOfWeek ==
    /\ op = "init"
    /\ \E o \in DayOfWeekInputs :
        /\ op' = "dayOfWeek"
        /\ a' = o
        /\ b' = NoOptions
        /\ out' = IF timestamp(o).tag = "ok" THEN NoOutcome ELSE Thrown
        /\ val' = IF timestamp(o).tag = "ok"
                      THEN [NoVal EXCEPT !.day = dayOfWeek(o)]
                      ELSE NoVal

\* fn(y)(x) of a curried variant; a holds x and b holds y
BooleanFn ==
    /\ op = "init"
    /\ \E fn \in BooleanFns, y \in CompareInputs, x \in CompareInputs :
        /\ op' = fn
        /\ a' = x
        /\ b' = y
        /\ out' = NoOutcome
        /\ val' = [NoVal EXCEPT !.flag = CallBooleanFn(fn, y, x)]

CompareFn ==
    /\ op = "init"
    /\ \E y \in CompareInputs, x \in CompareInputs :
        /\ op' = "compareFn"
        /\ a' = x
        /\ b' = y
        /\ out' = NoOutcome
        /\ val' = [NoVal EXCEPT !.cmp = compareFn(y, x)]

EarliestFn ==
    /\ op = "init"
    /\ \E y \in CompareInputs, x \in CompareInputs :
        /\ op' = "earliestFn"
        /\ a' = x
        /\ b' = y
        /\ out' = earliestFn(y, x)
        /\ val' = NoVal

LatestFn ==
    /\ op = "init"
    /\ \E y \in CompareInputs, x \in CompareInputs :
        /\ op' = "latestFn"
        /\ a' = x
        /\ b' = y
        /\ out' = latestFn(y, x)
        /\ val' = NoVal

Next ==
    \/ Timestamp
    \/ Normalize
    \/ FromReferenceSeconds
    \/ IsValidTimestamp
    \/ IsValid
    \/ Compare
    \/ Before
    \/ Equal
    \/ After
    \/ ParseIso8601
    \/ FormatIso8601
    \/ FormatParsed
    \/ EarliestOfSequence
    \/ LatestOfSequence
    \/ Earliest
    \/ Latest
    \/ DayOfWeek
    \/ BooleanFn
    \/ CompareFn
    \/ EarliestFn
    \/ LatestFn

Spec == Init /\ [][Next]_vars

(***************************************************************************)
(* Properties.                                                             *)
(***************************************************************************)
\* Every field is present, finite and whole, but for the seconds, which are
\* present and finite.
AllFinite(o) ==
    /\ IsWhole(o.year) /\ IsWhole(o.month) /\ IsWhole(o.day)
    /\ IsWhole(o.hours) /\ IsWhole(o.minutes) /\ IsFinite(o.seconds)

\* The canonical form: every field in its range.
Canonical(t) ==
    /\ AllFinite(t)
    /\ t.month.v \in {m * Res : m \in 1..12}
    /\ t.day.v >= Res
    /\ t.day.v <= Res * daysInMonth(t.month.v \div Res, t.year.v \div Res)
    /\ t.hours.v \in {h * Res : h \in 0..23}
    /\ t.minutes.v \in {m * Res : m \in 0..59}
    /\ t.seconds.v >= 0 /\ t.seconds.v < 60 * Res

\* A time of day in its range.
CanonicalTime(t) ==
    /\ t.hours.v \in {h * Res : h \in 0..23}
    /\ t.minutes.v \in {m * Res : m \in 0..59}
    /\ t.seconds.v >= 0 /\ t.seconds.v < 60 * Res

Tagged(o) == [o EXCEPT !.type = "Timestamp"]

C2_ResultCanonical ==
    (op = "timestamp" /\ out.tag = "ok") =>
        /\ isValid(out.t)
        /\ Canonical(out.t)
        /\ out.t.type = "Timestamp"

C2_Witness ==
    /\ op = "timestamp"
    /\ AllFinite(a)
    /\ ~isValid(a)
    /\ a.month = Num(13)
    /\ a.seconds.v > 60 * Res
    /\ out.tag = "ok"
    /\ isValid(out.t)

\* C3: a Timestamp returned by the library is valid under isValidTimestamp.
C3_ReturnedIsValidTimestamp == op = "isValidTimestamp" => val.flag

\* C4: idempotence: timestamp(timestamp(o)) is field for field timestamp(o).
C4_Idempotent == op = "normalize" => out = Ok(a)

C4_Witness ==
    /\ op = "normalize"
    /\ AllFinite(b)
    /\ ~isValid(b)
    /\ out = Ok(a)

\* C5: month carry: month 12 + m (m in 1..12) of year y is month m of year
\* y + 1, and month 0 is December of year y - 1; so timestamp({y, 13, 1})
\* equals timestamp({y + 1, 1, 1}).
C5_MonthCarry ==
    (op = "timestamp" /\ AllFinite(a) /\ CanonicalTime(a)
        /\ a.day.v >= Res /\ a.day.v <= 28 * Res) =>
        /\ (a.month.v > 12 * Res /\ a.month.v <= 24 * Res) =>
            /\ out = Ok(Tagged([a EXCEPT !.year = Add(a.year, Num(1)),
                                         !.month = Add(a.month, Num(-12))]))
            /\ out = timestamp([a EXCEPT !.year = Add(a.year, Num(1)),
                                         !.month = Add(a.month, Num(-12))])
        /\ a.month = Num(0) =>
            out = Ok(Tagged([a EXCEPT !.year = Add(a.year, Num(-1)),
                                      !.month = Num(12)]))

C5_Witness ==
    /\ op = "timestamp"
    /\ a.month = Num(13)
    /\ a.day = Num(1)
    /\ a.year = Num(0)
    /\ out.tag = "ok"
    /\ out.t.year = Num(1)
    /\ out.t.month = Num(1)
    /\ out.t.day = Num(1)

\* The Gregorian leap-year rule.
GregorianLeap(y) == (y % 4 = 0 /\ y % 100 # 0) \/ y % 400 = 0

\* C6: day borrow: day 0 of March of year y is the last day of February of
\* y: 29 February in a Gregorian leap year, 28 February otherwise.
C6_DayBorrow ==
    (op = "timestamp" /\ AllFinite(a) /\ CanonicalTime(a)
        /\ a.month = Num(3) /\ a.day = Num(0)) =>
        out = Ok(Tagged([a EXCEPT
                    !.month = Num(2),
                    !.day = IF GregorianLeap(a.year.v \div Res)
                                THEN Num(29) ELSE Num(28)]))

C6_Witness ==
    /\ op = "timestamp"
    /\ a.year = Num(1900)
    /\ a.month = Num(3)
    /\ a.day = Num(0)
    /\ out.tag = "ok"
    /\ out.t.month = Num(2)
    /\ out.t.day = Num(28)

\* C7: years are continuous across the era boundary: compare({year: y},
\* {year: y - 1}) is after for every y, positive, zero or negative.
C7_YearsContinuous ==
    (op = "compare" /\ \E y \in Years : a = YearOnly(y) /\ b = YearOnly(y - 1)) =>
        val.cmp = "after"

C7_Witness ==
    /\ op = "compare"
    /\ a = YearOnly(0)
    /\ b = YearOnly(-1)
    /\ val.cmp = "after"

\* No field, after the defaults, is NaN or infinite.
FiniteFields(o) ==
    /\ IsFinite(Coalesce(o.year, Num(1)))
    /\ IsFinite(Coalesce(o.month, Num(1)))
    /\ IsFinite(Coalesce(o.day, Num(1)))
    /\ IsFinite(Coalesce(o.hours, Num(0)))
    /\ IsFinite(Coalesce(o.minutes, Num(0)))
    /\ IsFinite(Coalesce(o.seconds, Num(0)))

\* C8: ordering totality: for finite a and b exactly one of before(a, b),
\* equal(a, b), after(a, b) is true.
C8_Totality ==
    (op \in {"before", "equal", "after"} /\ FiniteFields(a) /\ FiniteFields(b)) =>
        LET bf == IF op = "before" THEN val.flag ELSE before(a, b)
            eq == IF op = "equal" THEN val.flag ELSE equal(a, b)
            af == IF op = "after" THEN val.flag ELSE after(a, b)
        IN /\ bf \/ eq \/ af
           /\ ~(bf /\ eq) /\ ~(bf /\ af) /\ ~(eq /\ af)

C8_Witness ==
    /\ op = "equal"
    /\ FiniteFields(a) /\ FiniteFields(b)
    /\ a # b
    /\ val.flag
    /\ ~before(a, b) /\ ~after(a, b)

\* C9: timestamp(o) throws exactly when a field of o, after the defaults, is
\* NaN or infinite, however far out of range the finite fields are; and
\* fromReferenceSeconds(v) throws exactly when v is not finite.
C9_ThrowsIffNonFinite ==
    /\ op = "timestamp" =>
        /\ out.tag \in {"ok", "error"}
        /\ out.tag = "error" <=> ~FiniteFields(a)
    /\ op = "fromReferenceSeconds" =>
        /\ out.tag \in {"ok", "error"}
        /\ out.tag = "error" <=> val.rs.k # "fin"

C9_Witness ==
    /\ op = "timestamp"
    /\ a.hours = PosInf
    /\ a.minutes = NegInf
    /\ out.tag = "error"

\* The fields of o with the defaults for the omitted ones.
Defaulted(o) ==
    Options(o.type,
            Coalesce(o.year, Num(1)), Coalesce(o.month, Num(1)),
            Coalesce(o.day, Num(1)), Coalesce(o.hours, Num(0)),
            Coalesce(o.minutes, Num(0)), Coalesce(o.seconds, Num(0)))

\* C10: isValid(o) is true exactly when o, with the defaults for every
\* omitted field, has a whole year, a whole month in 1..12, a whole day in
\* 1..daysInMonth, whole hours in 0..23, whole minutes in 0..59 and
\* 0 <= seconds < 60.
C10_IsValidAfterDefaults == op = "isValid" => (val.flag <=> Canonical(Defaulted(a)))

(***************************************************************************)
(* parseIso8601 and formatIso8601.                                         *)
(***************************************************************************)
\* The text of the state matches with a numeric offset.
HasOffset(text) == Iso8601Match(text).ok /\ Iso8601Match(text).g[7] # <<>>

\* timestamp of the local fields of a match with sHH:MM subtracted
OffsetExpected(g) ==
    LET sg == IF g[7][1] = "-" THEN -1 ELSE 1
        hh == DigitsValue(Tail(g[7]))
        mm == DigitsValue(g[8])
    IN timestamp(Options("absent", Num(parseInt(g[1])), Num(DigitsValue(g[2])),
                         Num(DigitsValue(g[3])),
                         Num(DigitsValue(g[4]) - sg * hh),
                         Num(DigitsValue(g[5]) - sg * mm), parseFloat(g[6])))

\* C11: for every text that matches with a numeric offset sHH:MM, parseIso8601
\* returns timestamp of the local fields with s*(HH hours + MM minutes)
\* subtracted, also when HH is 00.
C11_OffsetNormalized ==
    (op = "parseIso8601" /\ HasOffset(val.txt))
        => out = OffsetExpected(Iso8601Match(val.txt).g)

\* The text is of the extended UTC form YYYY-MM-DDTHH:MM:SSZ with whole
\* seconds, and parseIso8601 accepts it.
ExtendedUtc(text) ==
    LET match == Iso8601Match(text)
        g == match.g
    IN /\ match.ok
       /\ Len(g[6]) = 2
       /\ text = g[1] \o Dash \o g[2] \o Dash \o g[3] \o <<"T">>
                 \o g[4] \o Colon \o g[5] \o Colon \o g[6] \o Zulu

\* C12: for every text s of the extended UTC form with whole seconds that
\* parseIso8601 accepts, formatIso8601(parseIso8601(s)) is s.
C12_ParseFormatInverse ==
    (op = "formatParsed" /\ ExtendedUtc(val.txt)) => val.str = val.txt

\* The fields of a match name no real date or time: a month outside 1..12,
\* a day outside the month, hours above 24, minutes above 59, seconds above 60.
InvalidFields(g) ==
    LET year == parseInt(g[1])
        month == DigitsValue(g[2])
        day == DigitsValue(g[3])
    IN \/ month \notin 1..12
       \/ day < 1
       \/ (month \in 1..12 /\ day > daysInMonth(month, year))
       \/ DigitsValue(g[4]) >= 25
       \/ DigitsValue(g[5]) >= 60
       \/ DigitsValue(SubSeq(g[6], 1, 2)) >= 61

\* The text ends with neither the UTC designator nor a signed offset.
NoZone(text) ==
    LET n == Len(text)
    IN /\ ~(n >= 1 /\ text[n] \in {"Z", "z"})
       /\ ~(n >= 5 /\ text[n - 4] \in {"+", "-"} /\ AllDigits(SubSeq(text, n - 3, n)))
       /\ ~(n >= 6 /\ text[n - 5] \in {"+", "-"} /\ text[n - 2] = ":"
            /\ AllDigits(SubSeq(text, n - 4, n - 3))
            /\ AllDigits(SubSeq(text, n - 1, n)))

\* The text has no T and no whitespace to separate the date from the time.
NoDelimiter(text) ==
    \A i \in 1..Len(text) : ~(text[i] \in {"T", "t"} \/ IsSpace(text[i]))

\* C13: parseIso8601 returns null, and does not throw, for every text that
\* does not match: in particular for a text without a trailing Z or signed
\* offset, for a text without a date/time delimiter, and for "not-a-date".
C13_MalformedIsNull ==
    (op = "parseIso8601"
     /\ (\/ ~Iso8601Match(val.txt).ok
         \/ NoZone(val.txt)
         \/ NoDelimiter(val.txt)
         \/ val.txt = NotADate))
        => out = Null

\* A date and time that lacks only the time zone designator was refused.
C13_Witness ==
    /\ op = "parseIso8601"
    /\ NoZone(val.txt)
    /\ Iso8601Match(val.txt \o Zulu).ok
    /\ out = Null

\* C14: parseIso8601 returns null for a text of the right shape whose fields
\* name no real date or time (month 00 or 13, day 00 or beyond the month's
\* length, hours 25, minutes 60, seconds 61).
C14_InvalidFieldsIsNull ==
    (op = "parseIso8601" /\ Iso8601Match(val.txt).ok
     /\ InvalidFields(Iso8601Match(val.txt).g))
        => out = Null

\* Position of the date/time delimiter of a text that has one.
DelimiterAt(text) ==
    CHOOSE i \in 1..Len(text) :
        /\ text[i] \in {"T", "t"} \/ IsSpace(text[i])
        /\ \A j \in 1..(i - 1) : ~(text[j] \in {"T", "t"} \/ IsSpace(text[j]))

\* The basic form of a text: the same characters without the '-' between the
\* date fields and without any ':'.
Basic(text) ==
    LET i == DelimiterAt(text)
    IN <<text[1]>>
       \o SelectSeq(SubSeq(text, 2, i - 1), LAMBDA c : c # "-")
       \o SelectSeq(SubSeq(text, i, Len(text)), LAMBDA c : c # ":")

\* The text is in the extended form: it matches and has both '-' of the date,
\* both ':' of the time and the ':' of the offset, if it has an offset.
IsExtended(text) ==
    /\ Iso8601Match(text).ok
    /\ Len(text) - Len(Basic(text))
           = IF Iso8601Match(text).g[7] = <<>> THEN 4 ELSE 5

\* C15: parseIso8601 accepts the extended form and the basic form, and for
\* the same digits both yield the same Timestamp.
C15_BothForms ==
    (op = "parseIso8601" /\ IsExtended(val.txt))
        => (out.tag = "ok" /\ parseIso8601(Basic(val.txt)) = out)

\* An extended text with a fraction and an offset was parsed, and its basic
\* form is a different text.
C15_Witness ==
    /\ op = "parseIso8601"
    /\ IsExtended(val.txt)
    /\ Iso8601Match(val.txt).g[7] # <<>>
    /\ Len(Iso8601Match(val.txt).g[6]) > 2
    /\ Iso8601Match(val.txt).g[6][3] = "."
    /\ Len(Basic(val.txt)) = Len(val.txt) - 5
    /\ out.tag = "ok"

\* formatIso8601 returned a text.
Formatted == op = "formatIso8601" /\ out.tag # "error"

\* The seconds of a formatted text: what stands between the last ':' and the
\* final Z.
SecondsPart(str) ==
    LET i == CHOOSE j \in 1..Len(str) :
                 str[j] = ":" /\ \A k \in (j + 1)..Len(str) : str[k] # ":"
    IN SubSeq(str, i + 1, Len(str) - 1)

\* The year of a formatted text: what stands before -MM-DDT.
YearPart(str) ==
    LET i == CHOOSE j \in 1..Len(str) : str[j] = "T"
    IN SubSeq(str, 1, i - 7)

\* C16: formatIso8601 renders the seconds truncated to whole seconds, padded
\* to 2 digits: a fraction is dropped.
C16_SecondsTruncated ==
    Formatted
        => SecondsPart(val.str) = Pad2(timestamp(a).t.seconds.v \div Res)

C18_YearPadded ==
    Formatted
        => LET y == YearPart(val.str)
               year == timestamp(a).t.year.v \div Res
           IN IF year < 0
                  THEN /\ y[1] = "-"
                       /\ Len(y) >= 5
                       /\ AllDigits(Tail(y))
                       /\ DigitsValue(Tail(y)) = 0 - year
                  ELSE /\ Len(y) >= 4
                       /\ AllDigits(y)
                       /\ DigitsValue(y) = year

(***************************************************************************)
(* compare, earliest, latest.                                              *)
(***************************************************************************)
\* C19: compare returns undefined, never before, equal or after, whenever the
\* reference seconds of an operand are NaN; for operands with finite fields
\* it returns one of before, equal, after, never undefined.
C19_CompareUndefinedIffNaN ==
    op = "compare"
        => /\ (toReferenceSeconds(a).k = "nan" \/ toReferenceSeconds(b).k = "nan")
                  => val.cmp = "undefined"
           /\ (FiniteFields(a) /\ FiniteFields(b))
                  => val.cmp \in {"before", "equal", "after"}

\* A Timestamp whose fields add up to NaN (Infinity hours, -Infinity minutes)
\* was compared with itself.
C19_Witness ==
    /\ op = "compare"
    /\ a = b
    /\ a.hours = PosInf
    /\ a.minutes = NegInf
    /\ toReferenceSeconds(a).k = "nan"
    /\ val.cmp = "undefined"

\* C20: earliest and latest of an empty sequence are null; of a non-empty
\* sequence of finite Timestamps they are the canonical Timestamp that is
\* before or equal (after or equal) every element and equal to one of them.
C20_EarliestLatestOfSequence ==
    (op \in {"earliestOfSequence", "latestOfSequence"}
     /\ \A i \in 1..Len(val.seq) : FiniteFields(val.seq[i]))
        => IF val.seq = <<>> THEN out = Null
           ELSE /\ out.tag = "ok"
                /\ Canonical(out.t)
                /\ \E i \in 1..Len(val.seq) : equal(out.t, val.seq[i])
                /\ \A i \in 1..Len(val.seq) :
                       IF op = "earliestOfSequence"
                           THEN before(out.t, val.seq[i]) \/ equal(out.t, val.seq[i])
                           ELSE after(out.t, val.seq[i]) \/ equal(out.t, val.seq[i])

\* The earliest of a sequence of three Timestamps is its middle one, written
\* differently from the canonical Timestamp returned, and before the others.
C20_Witness ==
    /\ op = "earliestOfSequence"
    /\ Len(val.seq) = 3
    /\ out.tag = "ok"
    /\ equal(out.t, val.seq[2])
    /\ Tagged(val.seq[2]) # out.t
    /\ before(out.t, val.seq[1])
    /\ before(out.t, val.seq[3])

\* C21: the two-argument earliest and latest throw if both Timestamps have
\* a non-finite field, and do not throw when at most one has: the finite
\* one is then returned, whichever argument it is.
C21_ThrowsOnlyIfBothNonFinite ==
    op \in {"earliest", "latest"}
        => /\ out.tag = "error" <=> (~FiniteFields(a) /\ ~FiniteFields(b))
           /\ (FiniteFields(a) /\ ~FiniteFields(b)) => out = timestamp(a)
           /\ (~FiniteFields(a) /\ FiniteFields(b)) => out = timestamp(b)

(***************************************************************************)
(* Defaults, floor division, canonical forms, the comparison functions.    *)
(***************************************************************************)
\* "10000-01-01T00:00:00Z"
TenThousandText ==
    IsoText(YearText(<<>>, 10000, 4), Dash, 1, 1, <<"T">>, 0, Colon, 0, Pad2(0), Zulu)

\* The fields a leaves out.
Omitted(o) ==
    {f \in {"year", "month", "day", "hours", "minutes", "seconds"} :
        o[f] = Undefined}

\* C22: omitted fields default to year 1, month 1, day 1, hours 0, minutes 0,
\* seconds 0: toReferenceSeconds({}) is 0, timestamp({year: y}) is
\* y-01-01T00:00:00, an input and the same input with the defaults written
\* out give the same Timestamp, and parseIso8601("10000-01-01T00:00:00Z")
\* is timestamp({year: 10000}).
C22_Defaults ==
    /\ op = "timestamp"
           => /\ a = NoOptions
                  => /\ val.rs = Ref(0, 0)
                     /\ out = Ok(Options("Timestamp", Num(1), Num(1), Num(1),
                                         Num(0), Num(0), Num(0)))
              /\ (Omitted(a) = {"month", "day", "hours", "minutes", "seconds"}
                  /\ IsFinite(a.year))
                  => out = Ok(Options("Timestamp", a.year, Num(1), Num(1),
                                      Num(0), Num(0), Num(0)))
              /\ out = timestamp(Defaulted(a))
              /\ val.rs = toReferenceSeconds(Defaulted(a))
    /\ (op = "parseIso8601" /\ val.txt = TenThousandText)
           => /\ out = timestamp(YearOnly(10000))
              /\ out = Ok(Options("Timestamp", Num(10000), Num(1), Num(1),
                                  Num(0), Num(0), Num(0)))

\* timestamp was called with the year alone.
C22_Witness ==
    /\ op = "timestamp"
    /\ Omitted(a) = {"month", "day", "hours", "minutes", "seconds"}
    /\ IsFinite(a.year)
    /\ out.tag = "ok"
    /\ out.t.month = Num(1)
    /\ out.t.seconds = Num(0)

\* The name that follows a name in the cycle Sunday..Saturday.
NextDayName(name) ==
    LET i == CHOOSE j \in 1..7 : daysOfWeek[j] = name
    IN daysOfWeek[(i % 7) + 1]

\* The names from Monday on: 1 January of year 1, day 0, is a Monday.
FromMonday ==
    <<"Monday", "Tuesday", "Wednesday", "Thursday", "Friday", "Saturday", "Sunday">>

\* dayOfWeek returned a name.
Named == op = "dayOfWeek" /\ out.tag # "error"

\* C23: dayOfWeek returns the weekday of the proleptic Gregorian date, also
\* for dates with a negative day count: it is one of the seven names, the
\* name the day count modulo 7 gives counted from Monday, the next day has
\* the next name and the day a week later the same name; 2021-03-29 is a
\* Monday and 2021-04-25 a Sunday.
C23_DayOfWeek ==
    Named
        => /\ \E i \in 1..7 : daysOfWeek[i] = val.day
           /\ val.day = FromMonday[(FloorDays(toReferenceSeconds(a)) % 7) + 1]
           /\ dayOfWeek([a EXCEPT !.day = Add(a.day, Num(1))]) = NextDayName(val.day)
           /\ dayOfWeek([a EXCEPT !.day = Add(a.day, Num(7))]) = val.day
           /\ a = Whole(2021, 3, 29, 0, 0, 0) => val.day = "Monday"
           /\ a = Whole(2021, 4, 25, 0, 0, 0) => val.day = "Sunday"

\* The day of the week of a date before 1 January of year 1 was asked for, two
\* days or more before a Monday.
C23_Witness ==
    /\ Named
    /\ FloorDays(toReferenceSeconds(a)) < 0
    /\ Rem(FloorDays(toReferenceSeconds(a)), 7) <= -2
    /\ val.day = "Saturday"

\* The seconds since midnight that the time of day of t stands for, in units
\* of 1/Res.
TimeOfDay(t) ==
    timeToReferenceSeconds([hours |-> t.hours, minutes |-> t.minutes,
                            seconds |-> t.seconds]).v

WithPoint(text) == [i \in 1..Len(text) |-> IF text[i] = "," THEN "." ELSE text[i]]

\* C25: in parseIso8601 a fraction of the seconds must be introduced by '.'
\* or ',', both giving the same value: a text whose seconds have further
\* digits without '.' or ',' (e.g. "2021-04-30T13:11:27245Z") yields null.
C25_FractionNeedsSeparator ==
    (op = "parseIso8601" /\ Iso8601Match(val.txt).ok)
        => /\ out = parseIso8601(WithPoint(val.txt))
           /\ Len(Iso8601Match(val.txt).g[6]) > 2
                  => Iso8601Match(val.txt).g[6][3] \in {".", ","}

\* C26: the two-argument earliest and latest are symmetric: earliest(a, b)
\* and earliest(b, a) have the same outcome, the same Timestamp or both an
\* error, also for operands whose reference seconds are NaN or infinite;
\* likewise latest.
C26_Symmetric ==
    /\ op = "earliest" => out = earliest(b, a)
    /\ op = "latest" => out = latest(b, a)

\* C27: the canonical form is unique per instant: for finite a and b,
\* equal(a, b) exactly when timestamp(a) and timestamp(b) are field for field
\* the same; each is equal to its own canonical form.
C27_CanonicalUnique ==
    (op = "equal" /\ FiniteFields(a) /\ FiniteFields(b))
        => /\ val.flag <=> timestamp(a) = timestamp(b)
           /\ timestamp(a).tag = "ok" /\ equal(a, timestamp(a).t)
           /\ timestamp(b).tag = "ok" /\ equal(b, timestamp(b).t)

\* {year: 2021, month: 13} and {year: 2022, month: 1} were found equal.
C27_Witness ==
    /\ op = "equal"
    /\ a = Whole(2021, 13, 1, 0, 0, 0)
    /\ b = Whole(2022, 1, 1, 0, 0, 0)
    /\ val.flag
    /\ timestamp(a) = timestamp(b)

\* C28: compare agrees with the predicates and is antisymmetric: it is
\* before exactly when before(a, b), after exactly when after(a, b), equal
\* exactly when equal(a, b); compare(a, b) is before exactly when
\* compare(b, a) is after; notEqual is the negation of equal; beforeOrEqual
\* is before or equal.
C28_CompareAgrees ==
    op = "compare"
        => /\ val.cmp = "before" <=> before(a, b)
           /\ val.cmp = "after" <=> after(a, b)
           /\ val.cmp = "equal" <=> equal(a, b)
           /\ val.cmp = "before" <=> compare(b, a) = "after"
           /\ val.cmp = "after" <=> compare(b, a) = "before"
           /\ notEqual(a, b) <=> ~equal(a, b)
           /\ beforeOrEqual(a, b) <=> (before(a, b) \/ equal(a, b))
           /\ afterOrEqual(a, b) <=> (after(a, b) \/ equal(a, b))

\* Two Timestamps written differently were compared, the first before the
\* second.
C28_Witness ==
    /\ op = "compare"
    /\ val.cmp = "before"
    /\ before(a, b)
    /\ beforeOrEqual(a, b)
    /\ notEqual(a, b)
    /\ compare(b, a) = "after"
    /\ a.month = Num(13)
    /\ b.hours = Num(24)

\* C29: every curried variant takes the right-hand operand first: fn(b)(a)
\* is the two-argument function of a and b, with the same value or error.
C29_CurriedRightFirst ==
    /\ op = "equalFn" => val.flag = equal(a, b)
    /\ op = "notEqualFn" => val.flag = notEqual(a, b)
    /\ op = "compareFn" => val.cmp = compare(a, b)
    /\ op = "beforeFn" => val.flag = before(a, b)
    /\ op = "beforeOrEqualFn" => val.flag = beforeOrEqual(a, b)
    /\ op = "afterFn" => val.flag = after(a, b)
    /\ op = "afterOrEqualFn" => val.flag = afterOrEqual(a, b)
    /\ op = "earliestFn" => out = earliest(a, b)
    /\ op = "latestFn" => out = latest(a, b)

\* beforeFn(b)(a) was true of an a before b, where before(b, a) is false.
C29_Witness ==
    /\ op = "beforeFn"
    /\ val.flag
    /\ before(a, b)
    /\ ~before(b, a)

\* C30: parseIso8601 is total with canonical results: for every text it
\* returns null or a Timestamp that isValid accepts, and never throws; an
\* offset that drives the hours or minutes out of their range rolls into the
\* neighbouring day, month and year.
C30_ParseTotal ==
    op = "parseIso8601"
        => \/ out = Null
           \/ /\ out.tag = "ok"
              /\ isValid(out.t)
              /\ Canonical(out.t)

\* 23:59 on 31 December with an offset of -23:59 was parsed into the next
\* year.
C30_Witness ==
    /\ op = "parseIso8601"
    /\ HasOffset(val.txt)
    /\ Iso8601Match(val.txt).g[1] = YearText(<<>>, 1994, 4)
    /\ out.tag = "ok"
    /\ out.t.year = Num(1995)
    /\ isValid(out.t)

====
